---------------------------- MODULE Spec2Model ----------------------------
(***************************************************************************)
(* Model of src/src/gpt4all.ts: the GPT4All class.                         *)
(*                                                                         *)
(* Session part (Spec): the subprocess handle this.bot, open(), close(),   *)
(* prompt() and the callbacks they register on the subprocess output       *)
(* (startupListener, onStdoutData, onStdoutError, the idle timer).         *)
(* The JavaScript runtime is single threaded: every call and every         *)
(* callback runs to completion, so each is one atomic action.  An async    *)
(* function runs synchronously up to its first await.                      *)
(*                                                                         *)
(* Provisioning part (DownloadSpec): init(), downloadExecutable(),         *)
(* downloadModel(), downloadFile(), followRedirects() and getModelUrl().   *)
(***************************************************************************)
EXTENDS Naturals, Sequences, FiniteSets

(* ---------------- bounds of the model ---------------- *)
MaxCalls == 4
MaxChunks == 2
MaxDownloads == 3
MaxRequests == 4

(* ---------------- text: strings are sequences of characters ------------ *)
ESC == "ESC"
NL == "NL"
GT == ">"
SP == " "
CH == "h"

\* The chunks the subprocess may emit.
Chunks ==
  { <<CH>>,            \* plain text, e.g. "partial output"
    <<CH, GT>>,        \* text ending in the marker
    <<CH, GT, SP>>,    \* "hello> "
    <<GT>>,            \* the bare marker
    <<ESC, NL, GT>>,   \* control sequence, newline, marker
    <<ESC>>,           \* first half of the completion pattern
    <<NL, GT>> }       \* second half of the completion pattern

\* data.toString().includes('>')
Includes(text, ch) == \E i \in 1..Len(text) : text[i] = ch

\* /^\u{001B}.*\n>\s?/mu.test(text): with the m flag ^ stands at the start of
\* the text or right after a line terminator; without the s flag . matches no
\* line terminator; \s? may match nothing.
PatternTest(text) ==
  \E i \in 1..Len(text) :
     /\ i = 1 \/ text[i-1] = NL
     /\ text[i] = ESC
     /\ \E j \in (i+1)..(Len(text)-1) :
           /\ text[j] = NL
           /\ text[j+1] = GT
           /\ \A k \in (i+1)..(j-1) : text[k] # NL

\* finalResponse.endsWith('>')
EndsWith(text, ch) == Len(text) > 0 /\ text[Len(text)] = ch

\* finalResponse.slice(0, -1)
SliceOffLast(text) == SubSeq(text, 1, Len(text) - 1)

\* Mutant: every trailing '>' is removed, not one.
RECURSIVE StripMarker_All(_)
StripMarker_All(text) ==
  IF EndsWith(text, GT) THEN StripMarker_All(SliceOffLast(text)) ELSE text

\* if (finalResponse.endsWith('>')) finalResponse = finalResponse.slice(0, -1)
StripMarker(text) == IF EndsWith(text, GT) THEN SliceOffLast(text) ELSE text

(* ---------------- state ---------------- *)
VARIABLES
  bot,        \* this.bot: 0 for null, else the subprocess held
  opens,      \* opens[p]: the open() call that spawned subprocess p
  killed,     \* the subprocesses kill() was called on
  stdin,      \* stdin[p]: the prompt calls whose text was written to p
  marker,     \* subprocesses whose output has carried a chunk containing '>'
  nchunks,    \* number of chunks the subprocesses have emitted so far
  startupL,   \* subprocesses whose startupListener is attached
  prompts,    \* prompts[c]: the c-th prompt() call
  dataL,      \* prompt calls whose onStdoutData is attached
  errL,       \* prompt calls whose onStdoutError is attached
  closes,     \* number of close() calls made by the caller
  errors,     \* the operations that have thrown to their caller
  platform,   \* os.platform() of the host
  files,      \* the artifacts whose file exists (existsSync)
  downloadPromises,  \* this.downloadPromises: "null" or a set of downloads
  inits,      \* inits[i]: the i-th init() call
  downloads   \* downloads[d]: the d-th downloadExecutable()/downloadModel()

sessionVars == <<bot, opens, killed, stdin, marker, nchunks, startupL, prompts, dataL, errL, closes, errors>>

downloadVars == <<platform, files, downloadPromises, inits, downloads>>
vars == <<sessionVars, downloadVars>>

NoBot == 0
Procs == 1..MaxCalls
Spawned == 1..Len(opens)
Calls == 1..Len(prompts)
\* open(), close() and prompt() calls made so far
NumCalls == Len(opens) + Len(prompts) + closes

Artifacts == {"executable", "model"}
Platforms == {"linux", "win32", "darwin", "freebsd"}

\* The state after construction: this.bot = null, this.downloadPromises =
\* null, nothing spawned, called or downloaded yet.  The session is studied
\* on a host where both artifacts are in place.
Init ==
  /\ bot = NoBot
  /\ opens = << >>
  /\ killed = {}
  /\ stdin = [p \in Procs |-> << >>]
  /\ marker = {}
  /\ nchunks = 0
  /\ startupL = {}
  /\ prompts = << >>
  /\ dataL = {}
  /\ errL = {}
  /\ closes = 0
  /\ errors = {}
  /\ platform = "linux"
  /\ files = Artifacts
  /\ downloadPromises = "null"
  /\ inits = << >>
  /\ downloads = << >>

\* The same on any host: any platform, any of the two files present or not.
DownloadInit ==
  /\ bot = NoBot
  /\ opens = << >>
  /\ killed = {}
  /\ stdin = [p \in Procs |-> << >>]
  /\ marker = {}
  /\ nchunks = 0
  /\ startupL = {}
  /\ prompts = << >>
  /\ dataL = {}
  /\ errL = {}
  /\ closes = 0
  /\ errors = {}
  /\ platform \in Platforms
  /\ files \in SUBSET Artifacts
  /\ downloadPromises = "null"
  /\ inits = << >>
  /\ downloads = << >>

(* ---------------- close() ---------------- *)
\* if (this.bot === null) return; this.bot.kill(); this.bot = null;
KillBot(b, k) == IF b = NoBot THEN k ELSE k \cup {b}

\* Mutant: the null check is missing, so kill() on null throws.
Close_NoGuard ==
  /\ NumCalls < MaxCalls
  /\ closes' = closes + 1
  /\ killed' = KillBot(bot, killed)
  /\ errors' = IF bot = NoBot THEN errors \cup {"close"} ELSE errors
  /\ bot' = NoBot
  /\ UNCHANGED <<opens, stdin, marker, nchunks, startupL, prompts, dataL, errL>>
  /\ UNCHANGED downloadVars

Close ==
  /\ NumCalls < MaxCalls
  /\ closes' = closes + 1
  /\ killed' = KillBot(bot, killed)
  /\ bot' = NoBot
  /\ UNCHANGED <<opens, stdin, marker, nchunks, startupL, prompts, dataL, errL, errors>>
  /\ UNCHANGED downloadVars

(* ---------------- open() ---------------- *)
\* Mutant: the listener resolves on any chunk.
StartupListener_AnyChunk(text) == Len(text) >= 0

\* startupListener: if (!data.toString().includes('>')) return; resolve(true)
StartupListener(text) == Includes(text, GT)

\* Mutant: open() does not close the session it replaces.
Open_NoClose ==
  /\ NumCalls < MaxCalls
  /\ LET p == Len(opens) + 1 IN
       /\ bot' = p
       /\ opens' = Append(opens, "waiting")
       /\ startupL' = startupL \cup {p}
  /\ UNCHANGED <<killed, stdin, marker, nchunks, prompts, dataL, errL, closes, errors>>
  /\ UNCHANGED downloadVars

\* this.close(); bot = spawn(...); this.bot = bot; then the executor of the
\* awaited promise attaches startupListener, all in the caller's turn.
Open ==
  /\ NumCalls < MaxCalls
  /\ LET p == Len(opens) + 1 IN
       /\ killed' = KillBot(bot, killed)
       /\ bot' = p
       /\ opens' = Append(opens, "waiting")
       /\ startupL' = startupL \cup {p}
  /\ UNCHANGED <<stdin, marker, nchunks, prompts, dataL, errL, closes, errors>>
  /\ UNCHANGED downloadVars

(* ---------------- prompt() ---------------- *)
\* bot, response, timeoutId: the variables the call's closures share; status,
\* result: the promise it returned; via: the callback that settled it;
\* heard: the chunks its subprocess has emitted while it was pending.
\* A timer is named by the number of chunks the call had received when
\* setTimeout created it: timers are the call's timers not yet fired or
\* cleared, timeoutAt is the timer timeoutId refers to (0: none), and
\* firedAt the timer whose callback ran last (0: none).
NewPrompt(b, st) ==
  [bot |-> b, status |-> st, response |-> << >>, timeoutId |-> "unset",
   result |-> << >>, via |-> "none", heard |-> << >>,
   timers |-> {}, timeoutAt |-> 0, firedAt |-> 0]

\* Mutant: with no session open the call returns a promise that waits for
\* output instead of throwing.
Prompt_NoNullCheck ==
  /\ NumCalls < MaxCalls
  /\ LET c == Len(prompts) + 1 IN
       /\ stdin' = IF bot = NoBot THEN stdin ELSE [stdin EXCEPT ![bot] = Append(@, c)]
       /\ prompts' = Append(prompts, NewPrompt(bot, "pending"))
       /\ dataL' = dataL \cup {c}
       /\ errL' = errL \cup {c}
  /\ UNCHANGED <<bot, opens, killed, marker, nchunks, startupL, closes, errors>>
  /\ UNCHANGED downloadVars

\* Mutant: the idle timer is started when the prompt is submitted.
Prompt_StartsTimer ==
  /\ NumCalls < MaxCalls
  /\ LET c == Len(prompts) + 1 IN
       IF bot = NoBot
       THEN /\ prompts' = Append(prompts, NewPrompt(NoBot, "threw"))
            /\ errors' = errors \cup {"prompt"}
            /\ UNCHANGED <<stdin, dataL, errL>>
       ELSE /\ stdin' = [stdin EXCEPT ![bot] = Append(@, c)]
            /\ UNCHANGED errors
            /\ prompts' = Append(prompts,
                  [NewPrompt(bot, "pending") EXCEPT !.timeoutId = "armed", !.timers = {0}])
            /\ dataL' = dataL \cup {c}
            /\ errL' = errL \cup {c}
  /\ UNCHANGED <<bot, opens, killed, marker, nchunks, startupL, closes>>
  /\ UNCHANGED downloadVars

\* const bot = this.bot; if (bot === null) throw ...; bot.stdin.write(...);
\* the promise executor attaches onStdoutData and onStdoutError.
Prompt ==
  /\ NumCalls < MaxCalls
  /\ LET c == Len(prompts) + 1 IN
       IF bot = NoBot
       THEN /\ prompts' = Append(prompts, NewPrompt(NoBot, "threw"))
            /\ errors' = errors \cup {"prompt"}
            /\ UNCHANGED <<stdin, dataL, errL>>
       ELSE /\ stdin' = [stdin EXCEPT ![bot] = Append(@, c)]
            /\ UNCHANGED errors
            /\ prompts' = Append(prompts, NewPrompt(bot, "pending"))
            /\ dataL' = dataL \cup {c}
            /\ errL' = errL \cup {c}
  /\ UNCHANGED <<bot, opens, killed, marker, nchunks, startupL, closes>>
  /\ UNCHANGED downloadVars

(* ---------------- callbacks of a prompt ---------------- *)
\* resolve / reject of a promise: only the first settlement counts.
Settle(r, st, res, how) ==
  IF r.status = "pending"
  THEN [r EXCEPT !.status = st, !.result = res, !.via = how]
  ELSE r

\* terminateAndResolve(finalResponse), as to the promise
TerminateAndResolve(r, finalResponse, how) ==
  Settle(r, "resolved", StripMarker(finalResponse), how)

\* if (timeoutId) clearTimeout(timeoutId)
ClearTimeout(r) ==
  IF r.timeoutId = "armed"
  THEN [r EXCEPT !.timeoutId = "cleared", !.timers = @ \ {r.timeoutAt}]
  ELSE r

\* timeoutId = setTimeout(..., 4000), on the arrival of chunk number n
SetTimeout(r, n) ==
  [r EXCEPT !.timeoutId = "armed", !.timers = @ \cup {n}, !.timeoutAt = n]

\* Mutant: the chunk is appended before the pattern is tested, so the
\* matching chunk is part of the resolved text.
OnStdoutData_AppendFirst(r, text) ==
  LET r1 == [ClearTimeout(r) EXCEPT !.response = @ \o text]
  IN  IF PatternTest(text)
      THEN TerminateAndResolve(r1, r1.response, "pattern")
      ELSE SetTimeout(r1, Len(r1.heard))

\* Mutant: the pending timer is not cleared when a chunk arrives.
OnStdoutData_NoClear(r, text) ==
  LET r2 == IF PatternTest(text)
            THEN TerminateAndResolve(r, r.response, "pattern")
            ELSE SetTimeout(r, Len(r.heard))
  IN  [r2 EXCEPT !.response = @ \o text]

\* Mutant: the pattern is tested against the accumulated response.
OnStdoutData_TestsBuffer(r, text) ==
  LET r1 == ClearTimeout(r)
      r2 == IF PatternTest(r1.response \o text)
            THEN TerminateAndResolve(r1, r1.response, "pattern")
            ELSE SetTimeout(r1, Len(r1.heard))
  IN  [r2 EXCEPT !.response = @ \o text]

\* onStdoutData(data), as to the call's record
OnStdoutData(r, text) ==
  LET r1 == ClearTimeout(r)
      r2 == IF PatternTest(text)
            THEN TerminateAndResolve(r1, r1.response, "pattern")
            ELSE SetTimeout(r1, Len(r1.heard))
  IN  [r2 EXCEPT !.response = @ \o text]

\* onStdoutError(err), as to the call's record
OnStdoutError(r) == Settle(r, "rejected", << >>, "error")

(* ---------------- events of the subprocess output ---------------- *)
\* The listeners of subprocess p's output that a 'data' event invokes.
DataListeners(p) == {c \in dataL : prompts[c].bot = p}
ErrorListeners(p) == {c \in errL : prompts[c].bot = p}

\* bot.stdout emits 'data': startupListener and every onStdoutData attached
\* to this subprocess run.  A killed subprocess may still deliver what it
\* wrote before the signal reached it.
Emit(p, text) ==
  /\ p \in Spawned
  /\ nchunks < MaxChunks
  /\ nchunks' = nchunks + 1
  /\ marker' = IF Includes(text, GT) THEN marker \cup {p} ELSE marker
  /\ IF p \in startupL /\ StartupListener(text)
     THEN /\ opens' = [opens EXCEPT ![p] = "returned"]
          /\ startupL' = startupL \ {p}
     ELSE UNCHANGED <<opens, startupL>>
  /\ prompts' = [c \in Calls |->
        LET r == IF prompts[c].bot = p /\ prompts[c].status = "pending"
                 THEN [prompts[c] EXCEPT !.heard = Append(@, text)]
                 ELSE prompts[c]
        IN  IF c \in DataListeners(p) THEN OnStdoutData(r, text) ELSE r]
  /\ LET done == {c \in DataListeners(p) : PatternTest(text)} IN
       /\ dataL' = dataL \ done
       /\ errL' = errL \ done
  /\ UNCHANGED <<bot, killed, stdin, closes, errors>>
  /\ UNCHANGED downloadVars

\* The callback of a timer of call c, as to the call's record
OnTimeout(r, t) ==
  TerminateAndResolve(
     [r EXCEPT !.timers = @ \ {t}, !.firedAt = t,
               !.timeoutId = IF t = r.timeoutAt THEN "fired" ELSE @],
     r.response, "timeout")

\* Mutant: the timer callback resolves and leaves the listeners attached.
TimerFire_KeepsListeners(c) ==
  /\ c \in Calls
  /\ \E t \in prompts[c].timers :
        prompts' = [prompts EXCEPT ![c] = OnTimeout(@, t)]
  /\ UNCHANGED <<dataL, errL>>
  /\ UNCHANGED <<bot, opens, killed, stdin, marker, nchunks, startupL, closes, errors>>
  /\ UNCHANGED downloadVars

\* An idle timer of call c fires: terminateAndResolve(response).
TimerFire(c) ==
  /\ c \in Calls
  /\ \E t \in prompts[c].timers :
        prompts' = [prompts EXCEPT ![c] = OnTimeout(@, t)]
  /\ dataL' = dataL \ {c}
  /\ errL' = errL \ {c}
  /\ UNCHANGED <<bot, opens, killed, stdin, marker, nchunks, startupL, closes, errors>>
  /\ UNCHANGED downloadVars

\* Mutant: a stream error also closes the session.
StreamError_Closes(p) ==
  /\ p \in Spawned
  /\ ErrorListeners(p) # {}
  /\ prompts' = [c \in Calls |->
        IF c \in ErrorListeners(p) THEN OnStdoutError(prompts[c]) ELSE prompts[c]]
  /\ dataL' = dataL \ ErrorListeners(p)
  /\ errL' = errL \ ErrorListeners(p)
  /\ killed' = KillBot(bot, killed)
  /\ bot' = NoBot
  /\ UNCHANGED <<opens, stdin, marker, nchunks, startupL, closes, errors>>
  /\ UNCHANGED downloadVars

\* bot.stdout emits 'error': every onStdoutError attached to it runs.  With
\* no listener attached the event is an uncaught exception, outside the model.
StreamError(p) ==
  /\ p \in Spawned
  /\ ErrorListeners(p) # {}
  /\ prompts' = [c \in Calls |->
        IF c \in ErrorListeners(p) THEN OnStdoutError(prompts[c]) ELSE prompts[c]]
  /\ dataL' = dataL \ ErrorListeners(p)
  /\ errL' = errL \ ErrorListeners(p)
  /\ UNCHANGED <<bot, opens, killed, stdin, marker, nchunks, startupL, closes, errors>>
  /\ UNCHANGED downloadVars

Next ==
  \/ Open
  \/ Close
  \/ Prompt
  \/ \E p \in Procs, text \in Chunks : Emit(p, text)
  \/ \E c \in 1..MaxCalls : TimerFire(c)
  \/ \E p \in Procs : StreamError(p)

Spec == Init /\ [][Next]_vars

(* ======================= provisioning ======================= *)
Downloads == 1..Len(downloads)
Inits == 1..Len(inits)
\* https.get calls made so far by all downloads
RECURSIVE SumRequests(_)
SumRequests(n) == IF n = 0 THEN 0 ELSE downloads[n].requests + SumRequests(n - 1)
NumRequests == SumRequests(Len(downloads))

\* getModelUrl: linux, win32 and darwin have a binary, any other platform throws
Supported(pf) == pf \in {"linux", "win32", "darwin"}

\* downloadExecutable() runs up to `await getModelUrl(...)`; downloadModel()
\* calls downloadFile at once, whose executor runs up to `await mkdir(...)`
\* and then calls followRedirects(url), which issues the first request.
\* requests: the get calls made; redirects: the 301/302 responses received;
\* opened: createWriteStream(destination) was called; last: the last event
\* the download received (a response, the writer's 'finish' or 'error').
NewDownload(a) ==
  [artifact |-> a, pc |-> IF a = "executable" THEN "url" ELSE "mkdir",
   requests |-> 0, redirects |-> 0, opened |-> FALSE, reason |-> "none",
   last |-> "none"]

\* The state of the promise a download returned.
DownloadStatus(r) ==
  CASE r.pc = "fulfilled" -> "fulfilled"
    [] r.pc = "rejected" -> "rejected"
    [] OTHER -> "pending"

\* Promise.all(promises): rejected once one of them is, fulfilled once all are
PromiseAll(ds) ==
  IF \E d \in ds : DownloadStatus(downloads[d]) = "rejected" THEN "rejected"
  ELSE IF \A d \in ds : DownloadStatus(downloads[d]) = "fulfilled" THEN "fulfilled"
  ELSE "pending"

\* Mutant: forceDownload is ignored, only absent files are downloaded.
ToDownload_IgnoreForce(force) ==
  (IF "executable" \notin files THEN <<"executable">> ELSE << >>) \o
  (IF "model" \notin files THEN <<"model">> ELSE << >>)

\* The downloads init(forceDownload) pushes, in order.
ToDownload(force) ==
  (IF force \/ "executable" \notin files THEN <<"executable">> ELSE << >>) \o
  (IF force \/ "model" \notin files THEN <<"model">> ELSE << >>)

\* init(forceDownload); the constructor calls init(true) when forceDownload is set.
\* The promises are collected in a local array: this.downloadPromises is
\* read and never assigned.
InitCall(force) ==
  /\ Len(inits) < MaxDownloads
  /\ Len(downloads) + Len(ToDownload(force)) <= MaxDownloads
  /\ IF downloadPromises # "null"
     THEN /\ inits' = Append(inits, [force |-> force, promises |-> downloadPromises])
          /\ UNCHANGED downloads
     ELSE LET new == ToDownload(force)
              ids == (Len(downloads) + 1)..(Len(downloads) + Len(new))
          IN  /\ downloads' = downloads \o [i \in 1..Len(new) |-> NewDownload(new[i])]
              /\ inits' = Append(inits, [force |-> force, promises |-> ids])
  /\ UNCHANGED <<platform, files, downloadPromises>>
  /\ UNCHANGED sessionVars

\* followRedirects(url) with a url: get(url, ...) issues one request
IssueRequest(r) == [r EXCEPT !.pc = "request", !.requests = @ + 1]

\* downloadExecutable after `await getModelUrl`: an unsupported platform
\* rejects it, else downloadFile starts.
ResolveUrl(d) ==
  /\ d \in Downloads
  /\ downloads[d].pc = "url"
  /\ downloads' = [downloads EXCEPT ![d] =
        IF Supported(platform) THEN [@ EXCEPT !.pc = "mkdir"]
        ELSE [@ EXCEPT !.pc = "rejected", !.reason = "platform"]]
  /\ UNCHANGED <<platform, files, downloadPromises, inits>>
  /\ UNCHANGED sessionVars

\* downloadFile after `await mkdir`: followRedirects(url) issues the request
StartFetch(d) ==
  /\ d \in Downloads
  /\ downloads[d].pc = "mkdir"
  /\ NumRequests < MaxRequests
  /\ downloads' = [downloads EXCEPT ![d] = IssueRequest(@)]
  /\ UNCHANGED <<platform, files, downloadPromises, inits>>
  /\ UNCHANGED sessionVars

\* The responses a server may give.
Responses == {"redirect", "redirectNoLocation", "notOk", "okNoLength", "ok"}

\* Mutant: a 301/302 response is returned to the caller, not followed.
FollowRedirects_NoFollow(r, resp) ==
  CASE resp = "redirect" -> [r EXCEPT !.pc = "response", !.redirects = @ + 1]
    [] resp = "redirectNoLocation" ->
         [r EXCEPT !.pc = "hung", !.redirects = @ + 1, !.reason = "noUrl"]
    [] OTHER -> [r EXCEPT !.pc = "response"]

\* followRedirects after the response arrived: a 301/302 recurses on
\* headers.location, and an undefined location throws inside the async
\* executor of downloadFile, whose promise is then never settled.
FollowRedirects(r, resp) ==
  CASE resp = "redirect" -> [IssueRequest(r) EXCEPT !.redirects = @ + 1]
    [] resp = "redirectNoLocation" ->
         [r EXCEPT !.pc = "hung", !.redirects = @ + 1, !.reason = "noUrl"]
    [] OTHER -> [r EXCEPT !.pc = "response"]

\* Mutant: the content-length check is missing.
DownloadFile_NoLengthCheck(r, resp) ==
  CASE resp = "notOk" -> [r EXCEPT !.pc = "rejected", !.reason = "status"]
    [] resp \in {"ok", "okNoLength"} -> [r EXCEPT !.pc = "writing", !.opened = TRUE]
    [] OTHER -> r

\* downloadFile after `await followRedirects(url)`
DownloadFile(r, resp) ==
  CASE resp = "notOk" -> [r EXCEPT !.pc = "rejected", !.reason = "status"]
    [] resp = "okNoLength" -> [r EXCEPT !.pc = "rejected", !.reason = "noLength"]
    [] resp = "ok" -> [r EXCEPT !.pc = "writing", !.opened = TRUE]
    [] OTHER -> r

Respond(d, resp) ==
  /\ d \in Downloads
  /\ downloads[d].pc = "request"
  /\ resp = "redirect" => NumRequests < MaxRequests
  /\ LET r == DownloadFile(FollowRedirects(downloads[d], resp), resp) IN
       /\ downloads' = [downloads EXCEPT ![d] = [r EXCEPT !.last = resp]]
       /\ files' = IF r.opened THEN files \cup {r.artifact} ELSE files
  /\ UNCHANGED <<platform, downloadPromises, inits>>
  /\ UNCHANGED sessionVars

\* The write stream emits 'finish': downloadFile resolves; downloadExecutable
\* then awaits chmod and returns.
Finish(d) ==
  /\ d \in Downloads
  /\ downloads[d].pc = "writing"
  /\ downloads' = [downloads EXCEPT ![d].pc = "fulfilled", ![d].last = "finish"]
  /\ UNCHANGED <<platform, files, downloadPromises, inits>>
  /\ UNCHANGED sessionVars

\* The write stream emits 'error': downloadFile rejects.
WriteError(d) ==
  /\ d \in Downloads
  /\ downloads[d].pc = "writing"
  /\ downloads' = [downloads EXCEPT ![d].pc = "rejected", ![d].reason = "write",
                                    ![d].last = "error"]
  /\ UNCHANGED <<platform, files, downloadPromises, inits>>
  /\ UNCHANGED sessionVars

DownloadNext ==
  \/ \E force \in BOOLEAN : InitCall(force)
  \/ \E d \in 1..MaxDownloads : ResolveUrl(d)
  \/ \E d \in 1..MaxDownloads : StartFetch(d)
  \/ \E d \in 1..MaxDownloads, resp \in Responses : Respond(d, resp)
  \/ \E d \in 1..MaxDownloads : Finish(d)
  \/ \E d \in 1..MaxDownloads : WriteError(d)

DownloadSpec == DownloadInit /\ [][DownloadNext]_vars

FairSpec == Spec /\ \A c \in 1..MaxCalls : WF_vars(TimerFire(c))

(* ======================= properties of the session ======================= *)
RECURSIVE Flatten(_)
Flatten(chunks) ==
  IF chunks = << >> THEN << >> ELSE Head(chunks) \o Flatten(Tail(chunks))

Front(q) == SubSeq(q, 1, Len(q) - 1)
Last(q) == q[Len(q)]
Pending(c) == c \in Calls /\ prompts[c].status = "pending"
\* The one chunk of Chunks the completion pattern matches.
MatchingChunk == <<ESC, NL, GT>>
\* text with one trailing '>' removed if it ends with '>', else text itself
IsStripped(res, text) ==
  \/ text # << >> /\ Last(text) = GT /\ res \o <<GT>> = text
  \/ (text = << >> \/ Last(text) # GT) /\ res = text
Grew(c) == c \in Calls /\ Len(prompts'[c].heard) > Len(prompts[c].heard)

\* C1: on one session (subprocess) at most one prompt call is in flight at
\* any time, and no chunk is delivered to two pending prompt calls.
C1_SingleFlight ==
  [][ /\ \A p \in Procs : Cardinality({c \in 1..Len(prompts') :
             prompts'[c].status = "pending" /\ prompts'[c].bot = p}) <= 1
      /\ \A c, d \in Calls : Grew(c) /\ Grew(d) => c = d ]_vars

\* C2: a prompt() call made while this.bot is null fails at once: it is never
\* pending, writes to no subprocess, attaches no listener and starts no timer.
C2_NotOpenFails ==
  [][ /\ \A c \in 1..Len(prompts') : prompts'[c].bot = NoBot =>
            /\ prompts'[c].status = "threw"
            /\ prompts'[c].timeoutId = "unset"
            /\ c \notin dataL' \cup errL'
      /\ Len(prompts') > Len(prompts) /\ bot = NoBot =>
            /\ prompts'[Len(prompts')].bot = NoBot
            /\ "prompt" \in errors'
            /\ stdin' = stdin /\ dataL' = dataL /\ errL' = errL ]_vars

C2_Witness ==
  /\ Len(opens) = 1 /\ closes = 1
  /\ \E c \in Calls : prompts[c].status = "threw"

\* C3 as stated: a pattern-match completion after response text that ends in
\* the marker and a space resolves with that text less the marker and space.
C3_MarkerSpaceStripped ==
  \A c \in Calls :
     prompts[c].via = "pattern" /\ Front(prompts[c].heard) = << <<CH, GT, SP>> >>
        => prompts[c].result = <<CH>>

\* C3 amended: completion by pattern match happens at the arrival of the
\* first matching chunk, with no idle timer left armed or fired, and resolves
\* with the text accumulated before that chunk, less one trailing '>' only
\* if '>' is its last character: "hello> " resolves as "hello> ".
C3_PatternResolves ==
  \A c \in Calls :
     /\ prompts[c].via = "pattern" =>
          /\ prompts[c].status = "resolved"
          /\ Last(prompts[c].heard) = MatchingChunk
          /\ \A i \in 1..(Len(prompts[c].heard) - 1) : prompts[c].heard[i] # MatchingChunk
          /\ prompts[c].timeoutId \in {"unset", "cleared"}
          /\ IsStripped(prompts[c].result, Flatten(Front(prompts[c].heard)))
          /\ Front(prompts[c].heard) = << <<CH, GT, SP>> >> =>
                prompts[c].result = <<CH, GT, SP>>
     /\ prompts[c].status = "pending" =>
          \A i \in 1..Len(prompts[c].heard) : prompts[c].heard[i] # MatchingChunk

C3_Witness ==
  \E c \in Calls :
     /\ prompts[c].via = "pattern"
     /\ prompts[c].heard = << <<CH, GT, SP>>, MatchingChunk >>

\* C4: every chunk that does not match leaves the prompt pending with its
\* idle timer armed, and a prompt whose chunks never match and whose idle
\* timer fires resolves by that timer with all chunks since its submission,
\* concatenated in order, less exactly one trailing '>' if the text ends
\* with '>'.
C4_TimeoutResolves ==
  [][ \A c \in Calls :
        /\ prompts'[c].via = "timeout" =>
             /\ prompts'[c].status = "resolved"
             /\ prompts'[c].heard # << >>
             /\ \A i \in 1..Len(prompts'[c].heard) : prompts'[c].heard[i] # MatchingChunk
             /\ IsStripped(prompts'[c].result, Flatten(prompts'[c].heard))
        /\ Pending(c) /\ prompts[c].timeoutId = "armed" /\ prompts'[c].timeoutId = "fired"
             => prompts'[c].via = "timeout"
        /\ Pending(c) /\ Grew(c) /\ Last(prompts'[c].heard) # MatchingChunk
             => prompts'[c].status = "pending" /\ prompts'[c].timeoutId = "armed" ]_vars

C4_Witness ==
  \E c \in Calls :
     /\ prompts[c].via = "timeout"
     /\ prompts[c].heard = << <<CH, GT>>, <<GT>> >>
     /\ prompts[c].result = <<CH, GT>>

\* C5: every spawned subprocess other than the one held in this.bot has been
\* killed; with this.bot null, all of them have.
C5_NoLeakedSubprocess ==
  \A p \in Spawned : p # bot => p \in killed

C5_Witness ==
  /\ Len(opens) = 2 /\ opens[1] = "waiting"
  /\ 1 \in killed /\ bot = 2 /\ 2 \notin killed

\* C6: an open() call completes only in a step in which its own subprocess
\* emits its first chunk containing '>', and from then on its startup
\* listener is detached.
C6_OpenWaitsForMarker ==
  [][ \A p \in 1..Len(opens') :
        /\ opens'[p] = "returned" => p \in marker' /\ p \notin startupL'
        /\ opens'[p] = "waiting" => p \in startupL'
        /\ p \in Spawned /\ opens[p] = "waiting" /\ opens'[p] = "returned"
             => nchunks' = nchunks + 1 /\ p \notin marker ]_vars

C6_Witness ==
  /\ opens = <<"returned">>
  /\ \E c \in Calls : prompts[c].heard = << <<CH>>, <<CH, GT>> >>

\* C7: a prompt that is pending when close() kills its subprocess does
\* eventually settle.
C7_ClosedPromptSettles ==
  \A c \in 1..MaxCalls :
     (Pending(c) /\ prompts[c].bot \in killed /\ bot = NoBot) ~> (c \in Calls /\ ~Pending(c))

\* C8: an error event on the output stream rejects pending prompts of that
\* stream and nothing else: this.bot is unchanged, no subprocess is killed,
\* and a later prompt() on the same session is accepted.
ErrorStep == \E c \in Calls : prompts[c].via # "error" /\ prompts'[c].via = "error"
C8_ErrorKeepsSession ==
  [][ /\ ErrorStep =>
           /\ bot' = bot /\ killed' = killed /\ opens' = opens /\ errors' = errors
           /\ Len(prompts') = Len(prompts)
           /\ \A c \in Calls :
                 \/ prompts'[c] = prompts[c]
                 \/ /\ Pending(c) /\ prompts'[c].status = "rejected"
                    /\ c \notin dataL' \cup errL'
           /\ \A c, d \in Calls :
                 prompts'[c] # prompts[c] /\ prompts'[d] # prompts[d]
                    => prompts[c].bot = prompts[d].bot
      /\ ( /\ Len(prompts') > Len(prompts)
           /\ \E d \in Calls : prompts[d].via = "error" /\ prompts[d].bot = bot )
         => LET c == Len(prompts') IN
              /\ prompts'[c].status = "pending" /\ prompts'[c].bot = bot
              /\ c \in dataL' /\ c \in errL'
              /\ stdin'[bot] = Append(stdin[bot], c) ]_vars

C8_Witness ==
  /\ Len(prompts) = 2 /\ bot # NoBot /\ bot \notin killed
  /\ prompts[1].via = "error" /\ prompts[1].bot = bot
  /\ prompts[2].status = "pending" /\ prompts[2].bot = bot

\* C9: close() with this.bot null changes nothing and does not throw, and
\* every close() leaves this.bot null: a second close() adds nothing.
C9_CloseIdempotent ==
  [][ closes' = closes + 1 =>
        /\ bot' = NoBot
        /\ "close" \notin errors'
        /\ bot = NoBot => UNCHANGED <<bot, opens, killed, stdin, marker, nchunks,
                                       startupL, prompts, dataL, errL, errors>> ]_vars

C9_Witness ==
  /\ closes = 2 /\ Len(opens) = 1 /\ bot = NoBot /\ killed = {1}


(* =================== properties of the session, continued =================== *)
PendingCalls(ps) == {c \in 1..Len(ps) : ps[c].status = "pending"}
Accepted == Len(prompts') > Len(prompts) /\ prompts'[Len(prompts')].status = "pending"

\* C15: the data listeners attached are exactly those of the prompt calls not
\* yet settled, and so are the error listeners; an accepted prompt() attaches
\* its own pair, and a settled prompt accumulates no later chunk.
C15_OneShotListeners ==
  [][ /\ dataL' = PendingCalls(prompts')
      /\ errL' = PendingCalls(prompts')
      /\ Accepted => Len(prompts') \notin dataL \cup errL
      /\ \A c \in Calls : ~Pending(c) => prompts'[c].response = prompts[c].response ]_vars

C15_Witness ==
  /\ Len(prompts) = 2 /\ prompts[1].bot = prompts[2].bot
  /\ prompts[1].via = "timeout" /\ prompts[1].heard = << <<CH>> >>
  /\ prompts[1].response = <<CH>>
  /\ prompts[2].status = "pending" /\ prompts[2].heard = << <<GT>> >>

\* C16: a settled prompt call has no idle timer pending.
C16_NoTimerAfterSettle ==
  \A c \in Calls : prompts[c].status # "pending" => prompts[c].timers = {}

\* C17: a prompt call never has two idle timers pending, the only timer
\* pending after a chunk is the one that chunk started, and the timer that
\* completes a prompt is the one started by the last chunk it received.
C17_SingleIdleTimer ==
  [][ \A c \in 1..Len(prompts') :
        /\ Cardinality(prompts'[c].timers) <= 1
        /\ Pending(c) /\ Grew(c) => prompts'[c].timers \subseteq {Len(prompts'[c].heard)}
        /\ Pending(c) /\ prompts'[c].via = "timeout" =>
              /\ prompts'[c].firedAt = Len(prompts[c].heard)
              /\ prompts'[c].heard = prompts[c].heard ]_vars

C17_Witness ==
  \E c \in Calls :
     /\ prompts[c].via = "timeout" /\ prompts[c].firedAt = 2
     /\ Len(prompts[c].heard) = 2 /\ prompts[c].timeoutId = "fired"

\* C18: a prompt is accepted and written to the subprocess only when the
\* session is Ready: open() has returned for the subprocess held and no
\* prompt is in flight on it.
C18_PromptOnlyWhenReady ==
  [][ Accepted \/ stdin' # stdin =>
        /\ bot # NoBot
        /\ opens[bot] = "returned"
        /\ \A c \in Calls : Pending(c) => prompts[c].bot # bot ]_vars

\* C19: when the control sequence and the newline with the marker arrive in
\* two consecutive chunks, and no chunk matches on its own, the prompt is not
\* completed by pattern match: it resolves only by the idle timeout.
SplitPattern(h) ==
  /\ \E i \in 1..(Len(h) - 1) : h[i] = <<ESC>> /\ h[i+1] = <<NL, GT>>
  /\ \A i \in 1..Len(h) : h[i] # MatchingChunk
C19_SplitPatternNotDetected ==
  \A c \in Calls :
     SplitPattern(prompts[c].heard) =>
        /\ prompts[c].via # "pattern"
        /\ prompts[c].status = "resolved" => prompts[c].via = "timeout"
        /\ prompts[c].status = "pending" => prompts[c].timeoutId = "armed"

C19_Witness ==
  \E c \in Calls :
     /\ prompts[c].heard = << <<ESC>>, <<NL, GT>> >>
     /\ prompts[c].via = "timeout"
     /\ prompts[c].result = <<ESC, NL>>

\* C20: a prompt that has received no chunk has no idle timer, so nothing but
\* a chunk or a stream error can settle it; a prompt that has received a
\* chunk does settle, by its timer if nothing else arrives.
C20_TimerStartsAtFirstChunk ==
  /\ [][ \A c \in 1..Len(prompts') :
           prompts'[c].heard = << >> =>
              /\ prompts'[c].timers = {}
              /\ prompts'[c].timeoutId = "unset"
              /\ prompts'[c].via \in {"none", "error"} ]_vars
  /\ \A c \in 1..MaxCalls :
        (Pending(c) /\ prompts[c].heard # << >>)
           ~> (c \in Calls /\ (prompts[c].status = "resolved" \/ prompts[c].via = "error"))

C20_Witness ==
  \E c \in Calls :
     /\ prompts[c].status = "resolved" /\ prompts[c].firedAt = 1
     /\ prompts[c].heard = << <<CH>> >>

(* ===================== properties of provisioning ===================== *)
InProgress(ds, a) ==
  {d \in 1..Len(ds) : ds[d].artifact = a /\ ds[d].pc \notin {"fulfilled", "rejected"}}

\* C10: an init() call made while an earlier call's downloads are pending
\* starts no download of its own, so no artifact ever has two downloads in
\* progress, and the call shares the pending downloads' outcome.
C10_InitReusesPending ==
  [][ /\ \A a \in Artifacts : Cardinality(InProgress(downloads', a)) <= 1
      /\ ( /\ Len(inits') > Len(inits)
           /\ \E i \in Inits : PromiseAll(inits[i].promises) = "pending" )
         => /\ downloads' = downloads
            /\ \E i \in Inits : inits'[Len(inits')].promises = inits[i].promises ]_vars

\* The downloads of artifact a that the step starts
Started(a) ==
  {d \in (Len(downloads) + 1)..Len(downloads') : downloads'[d].artifact = a}

\* C11: init(forceDownload) starts one fetch of an artifact if forceDownload
\* is true or the artifact's file is absent, and none otherwise; nothing
\* else starts a fetch.  So init(false) with both files present starts none
\* and init(true) starts exactly two.
C11_FetchIffForcedOrAbsent ==
  [][ IF Len(inits') > Len(inits)
      THEN \A a \in Artifacts :
              Cardinality(Started(a)) =
                 IF inits'[Len(inits')].force \/ a \notin files THEN 1 ELSE 0
      ELSE Len(downloads') = Len(downloads) ]_vars

C11_Witness ==
  /\ files = Artifacts
  /\ Len(inits) = 2 /\ Len(downloads) = 2
  /\ ~inits[1].force /\ inits[1].promises = {}
  /\ inits[2].force /\ inits[2].promises = {1, 2}
  /\ \A d \in Downloads : downloads[d].requests = 0


\* The init() calls that started download d
StartedBy(d) == {i \in Inits : d \in inits[i].promises}
Failures == {"notOk", "okNoLength", "redirectNoLocation", "error"}

\* C12: a download that met a failure condition (a non-200 final response, no
\* content-length, a redirect without Location, a write-stream error) is
\* rejected, and so is the init() call that started it.
C12_FailuresReject ==
  \A d \in Downloads :
     downloads[d].last \in Failures =>
        /\ DownloadStatus(downloads[d]) = "rejected"
        /\ \A i \in StartedBy(d) : PromiseAll(inits[i].promises) = "rejected"

\* C13: a download whose final response has status 200 and no content-length
\* is rejected in the step that receives it, without opening the destination
\* for writing and without creating the file, and it stays rejected.
C13_NoLengthFails ==
  [][ \A d \in 1..Len(downloads') :
        downloads'[d].last = "okNoLength" =>
           /\ downloads'[d].pc = "rejected"
           /\ ~downloads'[d].opened
           /\ \A i \in StartedBy(d) : PromiseAll(inits[i].promises)' = "rejected"
           /\ (d \in Downloads /\ downloads[d].last # "okNoLength") => files' = files ]_vars

C13_Witness ==
  \E d \in Downloads :
     /\ downloads[d].last = "okNoLength" /\ downloads[d].redirects = 1
     /\ downloads[d].artifact \notin files

\* C14: each redirect response with a Location is answered by exactly one
\* further request, and the first response that is no redirect ends the
\* chain: no further request is made, n redirects have cost n + 1 requests,
\* and that response is the one downloadFile acts on.
C14_RedirectChain ==
  [][ \A d \in Downloads :
        downloads[d].pc = "request" /\ downloads'[d] # downloads[d] =>
           /\ downloads'[d].last = "redirect" =>
                /\ downloads'[d].pc = "request"
                /\ downloads'[d].requests = downloads[d].requests + 1
                /\ downloads'[d].redirects = downloads[d].redirects + 1
           /\ downloads'[d].last \in {"notOk", "okNoLength", "ok"} =>
                /\ downloads'[d].requests = downloads[d].requests
                /\ downloads'[d].redirects = downloads[d].redirects
                /\ downloads'[d].requests = downloads'[d].redirects + 1
                /\ downloads'[d].pc = IF downloads'[d].last = "ok" THEN "writing"
                                      ELSE "rejected" ]_vars

C14_Witness ==
  \E d \in Downloads :
     /\ downloads[d].redirects = 3 /\ downloads[d].requests = 4
     /\ downloads[d].last = "ok" /\ downloads[d].pc = "writing"


=============================================================================
